---- MODULE Spec2Model ----
(***************************************************************************)
(* The resilient completion pipeline of deepshell: the file-based LRU      *)
(* cache (deepshell/cache.py), the caching decorator around                *)
(* BaseHandler.get_completion, the configuration lookup that switches it   *)
(* (deepshell/config.py) and the retry executor of the completion client   *)
(* (deepshell/llm.py).                                                     *)
(***************************************************************************)
EXTENDS Integers, Sequences, FiniteSets, TLC

VARIABLES
    max_size,       \* Cache.max_size
    files,          \* the <key>.cache payload files of cache_dir: key -> text or NoFile
    metadata,       \* Cache.metadata: insertion-ordered dict, a sequence of [key, t]
    metadata_file,  \* .cache_metadata.json: [exists, data]
    now,            \* the last value time.time() returned
    lastOp,         \* the cache call that returned last: [op, key, value, ret]
    history,        \* the state-changing cache calls since the store was last empty
    histValid,      \* history is complete and its calls ran at strictly increasing times
    enable_cache,   \* where ENABLE_CACHE is configured and its text: [src, text]
    max_retries,    \* BaseLLMClient.max_retries
    pc,             \* position of the request in flight
    via,            \* entry point of the request: "facade" or "client"
    request,        \* keyword arguments of the request in flight
    attempt,        \* loop variable of _retry_with_backoff
    invocations,    \* calls of the provider operation made for this request
    outcomes,       \* what each of these calls did, in order
    sleeps,         \* the delays passed to time.sleep for this request, in order
    last_exception, \* _retry_with_backoff's last_exception (message text)
    retry_ret,      \* what _retry_with_backoff returned
    result,         \* what the call returned to its caller
    storedAtCall,   \* the payload file of the request's key when the call was made
    chunks,         \* what the provider's stream iterator did, in order
    fragments,      \* what the generator of _stream_completion yielded, in order
    evicting,       \* _cleanup_old_entries in progress: the keys it has still to remove
    keycall,        \* two calls of Cache._generate_key: their kwargs, canonical forms, keys
    options,        \* the options a handler was called with
    validated,      \* what BaseHandler.validate_options returned for them
    completion_kwargs, \* the keyword arguments complete() handed to the provider call
    console,        \* what the handler printed, in order
    handled,        \* the requests the handler has completed: what was asked, provider calls made
    pulls,          \* next() calls the consumer has made on the fragment generator
    pending,        \* what the loop body in progress has still to yield
    peer_metadata,  \* self.metadata of a second Cache instance over the same cache_dir
    peer_live       \* whether the second instance has been constructed

cacheVars == <<max_size, files, metadata, metadata_file, now, lastOp, history, histValid>>
configVars == <<enable_cache, max_retries>>
requestVars == <<pc, via, request, attempt, invocations, outcomes, sleeps,
                 last_exception, retry_ret, result, storedAtCall, chunks, fragments,
                 evicting>>
keyVars == <<keycall>>
handlerVars == <<options, validated, completion_kwargs, console, handled>>
pullVars == <<pulls, pending>>
peerVars == <<peer_metadata, peer_live>>
vars == <<cacheVars, configVars, requestVars, keyVars, handlerVars, pullVars, peerVars>>

-----------------------------------------------------------------------------
(* Bounds of the model. *)

MaxCapacity == 2
MaxTime == 4
MaxRetriesBound == 2
MaxChunks == 3
MaxTenths == 22
MaxTokens == 2
MaxHandled == 2

\* history is kept for as many calls as the longest scenario needs
MaxHist == MaxCapacity + 2

-----------------------------------------------------------------------------
(* Generic helpers. *)

Range(s) == {s[i] : i \in 1..Len(s)}

RECURSIVE Pow2(_)
Pow2(n) == IF n = 0 THEN 1 ELSE 2 * Pow2(n - 1)

RECURSIVE SumSeq(_)
SumSeq(s) == IF s = <<>> THEN 0 ELSE Head(s) + SumSeq(Tail(s))

\* Python's sorted(seq, key=rank): stable, ascending
\* ranks[i] is the sort key of s[i]
StableRank(ranks, i) ==
    1 + Cardinality({j \in 1..Len(ranks) :
            ranks[j] < ranks[i] \/ (ranks[j] = ranks[i] /\ j < i)})

\* variant: the sequence is left in the order given
sorted_as_given(s, ranks) == s

sorted(s, ranks) ==
    [r \in 1..Len(s) |-> s[CHOOSE i \in 1..Len(s) : StableRank(ranks, i) = r]]

-----------------------------------------------------------------------------
(* Requests and cache keys. *)

NoFile == "<no file>"
None == "<None>"

Messages == {"m1", "m2", "m3"}

\* keyword arguments of get_completion, each value as its JSON text
Requests ==
    [messages : Messages, stream : BOOLEAN, functions : {"null", "[f]"},
     tools : {"absent", "[t]"}]

json_bool(b) == IF b THEN "true" ELSE "false"

\* the **kwargs of a call, in the order the caller wrote them
kwargs_of(req) ==
    <<[name |-> "messages", value |-> req.messages],
      [name |-> "stream", value |-> json_bool(req.stream)],
      [name |-> "functions", value |-> req.functions]>>
    \o (IF req.tools = "absent" THEN <<>> ELSE <<[name |-> "tools", value |-> req.tools]>>)

\* string order of the keyword names
KwargOrder == <<"functions", "messages", "stream", "tools">>

name_rank(item) == CHOOSE i \in 1..Len(KwargOrder) : KwargOrder[i] = item.name

RECURSIVE json_items(_)
json_items(items) ==
    IF items = <<>> THEN ""
    ELSE "[" \o Head(items).name \o "," \o Head(items).value \o "]"
         \o json_items(Tail(items))

\* key_string of Cache._generate_key: no positional arguments are left after
\* self is dropped, the keyword arguments are sorted by name
key_string(kwargs) ==
    json_items(sorted(kwargs, [i \in 1..Len(kwargs) |-> name_rank(kwargs[i])]))

\* hashlib.md5(...).hexdigest(), kept symbolic: distinct texts, distinct digests
md5(text) == "md5(" \o text \o ")"

\* Cache._generate_key
generate_key(kwargs) == md5(key_string(kwargs))

Cacheable(req) == ~req.stream /\ req.functions = "null" /\ req.tools = "absent"

\* the key of every request, computed once
KeyOf == [r \in Requests |-> generate_key(kwargs_of(r))]

request_key(req) == KeyOf[req]

\* the keys used for the calls made on the Cache API directly
Keys == {request_key(r) : r \in {q \in Requests : Cacheable(q)}}

AllKeys == {request_key(r) : r \in Requests}

\* json.dumps of a list of messages, in the order of the list
RECURSIVE json_list_items(_)
json_list_items(msgs) ==
    IF msgs = <<>> THEN ""
    ELSE Head(msgs) \o (IF Len(msgs) > 1 THEN "," ELSE "") \o json_list_items(Tail(msgs))

json_list(msgs) == "[" \o json_list_items(msgs) \o "]"

\* the message lists the key is computed for: one message, and two in both orders
MessageLists == {<<"user">>, <<"system">>, <<"user", "system">>, <<"system", "user">>}

\* the values tried for each keyword of a call
KeyValues(name) ==
    CASE name = "messages" -> {json_list(m) : m \in MessageLists}
      [] name = "stream" -> {"true", "false"}
      [] OTHER -> {"null", "[f]"}

KeyItems ==
    UNION {{[name |-> n, value |-> v] : v \in KeyValues(n)} :
              n \in {"messages", "stream", "functions"}}

\* the **kwargs of a call: every keyword once, in any order
KeyCalls ==
    {kw \in [1..3 -> KeyItems] : \A i, j \in 1..3 : i # j => kw[i].name # kw[j].name}

NoKeyCall == [first |-> <<>>, second |-> <<>>, done |-> FALSE,
              form1 |-> None, form2 |-> None, key1 |-> None, key2 |-> None]

-----------------------------------------------------------------------------
(* The cache store. *)

\* payloads written through Cache.set directly
Payloads == {"1", "2"}

get_cache_file(key) == key

file_exists(fs, key) == fs[get_cache_file(key)] # NoFile

meta_keys(meta) == {meta[i].key : i \in 1..Len(meta)}

\* metadata[key] = t on an insertion-ordered dict
dict_set(meta, key, t) ==
    IF key \in meta_keys(meta)
    THEN [i \in 1..Len(meta) |-> IF meta[i].key = key THEN [key |-> key, t |-> t] ELSE meta[i]]
    ELSE Append(meta, [key |-> key, t |-> t])

load_metadata(mf) == IF mf.exists THEN mf.data ELSE <<>>

save_metadata(meta) == [exists |-> TRUE, data |-> meta]

access_time(item) == item.t

\* variant: off by one
items_to_remove_keep_one_more(meta, cap) == Len(meta) - cap - 1

items_to_remove(meta, cap) == Len(meta) - cap

\* variant: newest first (reverse=True)
sorted_items_newest_first(meta) ==
    LET s == sorted(meta, [i \in 1..Len(meta) |-> access_time(meta[i])]) IN [i \in 1..Len(s) |-> s[Len(s) + 1 - i]]

\* sorted(self.metadata.items(), key=lambda x: x[1])
sorted_items(meta) == sorted(meta, [i \in 1..Len(meta) |-> access_time(meta[i])])

\* s[:n] for n >= 0
slice_to(s, n) == SubSeq(s, 1, IF n < Len(s) THEN n ELSE Len(s))

\* the keys the eviction pass visits: sorted_items[:items_to_remove]
evicted(meta, cap) ==
    IF Len(meta) <= cap THEN {}
    ELSE meta_keys(slice_to(sorted_items(meta), items_to_remove(meta, cap)))

\* variant: the payload files are removed, the metadata stays
cache_clear_files_only(c) == [c EXCEPT !.files = [k \in DOMAIN c.files |-> NoFile]]

\* variant: the pass drops the metadata rows and leaves the payload files
cleanup_rows_only(c, cap) ==
    IF Len(c.metadata) <= cap THEN c
    ELSE LET gone == evicted(c.metadata, cap)
             meta == SelectSeq(c.metadata, LAMBDA e : e.key \notin gone)
         IN  [c EXCEPT !.metadata = meta, !.metadata_file = save_metadata(meta)]

\* Cache._cleanup_old_entries on [files, metadata, metadata_file]
cleanup_old_entries(c, cap) ==
    IF Len(c.metadata) <= cap THEN c
    ELSE LET gone == evicted(c.metadata, cap)
             meta == SelectSeq(c.metadata, LAMBDA e : e.key \notin gone)
         IN  [files |-> [k \in DOMAIN c.files |-> IF k \in gone THEN NoFile ELSE c.files[k]],
              metadata |-> meta,
              metadata_file |-> save_metadata(meta)]

\* variant: an existing payload file is not overwritten (open(..., 'x'))
cache_set_keep_existing(c, cap, key, value, t) ==
    LET written == [c EXCEPT !.files[get_cache_file(key)] =
                                 IF file_exists(c.files, key) THEN @ ELSE value,
                             !.metadata = dict_set(c.metadata, key, t)]
        cleaned == cleanup_old_entries(written, cap)
    IN  [cleaned EXCEPT !.metadata_file = save_metadata(cleaned.metadata)]

\* Cache.set
cache_set(c, cap, key, value, t) ==
    LET written == [c EXCEPT !.files[get_cache_file(key)] = value,
                             !.metadata = dict_set(c.metadata, key, t)]
        cleaned == cleanup_old_entries(written, cap)
    IN  [cleaned EXCEPT !.metadata_file = save_metadata(cleaned.metadata)]

\* the keys the eviction pass visits, in the order of the loop
eviction_order(meta, cap) ==
    IF Len(meta) <= cap THEN <<>>
    ELSE LET s == slice_to(sorted_items(meta), items_to_remove(meta, cap))
         IN  [i \in 1..Len(s) |-> s[i].key]

\* cache_file.unlink() raises OSError: the file is there and cannot be deleted
unlink_fails(fs, stuck, key) == file_exists(fs, key) /\ key \in stuck

\* variant: try around the loop, the first failure ends the pass
removed_until_failure(order, fs, stuck) ==
    {order[i] : i \in {j \in 1..Len(order) :
                         \A h \in 1..j : ~unlink_fails(fs, stuck, order[h])}}

\* the keys whose file and row the pass removes: try inside the loop, a failed
\* unlink skips the del of that key and the loop goes on
removed_by_pass(order, fs, stuck) ==
    {order[i] : i \in {j \in 1..Len(order) : ~unlink_fails(fs, stuck, order[j])}}

\* Cache._cleanup_old_entries when unlink raises OSError for the files of stuck
cleanup_old_entries_unlink_fails(c, cap, stuck) ==
    IF Len(c.metadata) <= cap THEN c
    ELSE LET gone == removed_by_pass(eviction_order(c.metadata, cap), c.files, stuck)
             meta == SelectSeq(c.metadata, LAMBDA e : e.key \notin gone)
         IN  [files |-> [k \in DOMAIN c.files |-> IF k \in gone THEN NoFile ELSE c.files[k]],
              metadata |-> meta,
              metadata_file |-> save_metadata(meta)]

\* Cache.set when unlink raises OSError for the files of stuck
cache_set_unlink_fails(c, cap, key, value, t, stuck) ==
    LET written == [c EXCEPT !.files[get_cache_file(key)] = value,
                             !.metadata = dict_set(c.metadata, key, t)]
        cleaned == cleanup_old_entries_unlink_fails(written, cap, stuck)
    IN  [cleaned EXCEPT !.metadata_file = save_metadata(cleaned.metadata)]

\* a payload file whose bytes are not UTF-8
Undecodable == "<bytes that do not decode>"

\* what a call returns when an exception leaves it
Raised == "<raised>"

\* the exception f.read() ends with, if any: io is what the operating system
\* does to the open and the read ("ok" or "IOError")
read_error(text, io) ==
    IF io = "IOError" THEN "IOError"
    ELSE IF text = Undecodable THEN "UnicodeDecodeError"
    ELSE None

\* variant: except IOError
get_except_IOError(class) == class = "IOError"

\* except (IOError, UnicodeDecodeError) of Cache.get
get_except(class) == class \in {"IOError", "UnicodeDecodeError"}

\* variant: a hit does not update the access time
cache_get_no_refresh(c, key, t) == c

\* Cache.get: the store after the call (the returned text is cache_get_ret)
cache_get(c, key, t) ==
    IF ~file_exists(c.files, key) THEN c
    ELSE IF read_error(c.files[get_cache_file(key)], "ok") # None THEN c
    ELSE LET meta == dict_set(c.metadata, key, t)
         IN  [c EXCEPT !.metadata = meta, !.metadata_file = save_metadata(meta)]

\* what Cache.get returns when the read ends with the exception class
get_failed(class) == IF get_except(class) THEN None ELSE Raised

cache_get_ret(c, key) ==
    IF ~file_exists(c.files, key) THEN None
    ELSE IF read_error(c.files[get_cache_file(key)], "ok") # None
    THEN get_failed(read_error(c.files[get_cache_file(key)], "ok"))
    ELSE c.files[get_cache_file(key)]

\* the call returned a payload
is_hit(ret) == ret \notin {None, Raised}

\* Cache.clear
cache_clear(c) ==
    [files |-> [k \in DOMAIN c.files |-> NoFile],
     metadata |-> <<>>,
     metadata_file |-> [exists |-> FALSE, data |-> <<>>]]

\* Cache.stats()["entries"]
stats_entries(meta) == Len(meta)

\* the payload files on disk
stored_keys(fs) == {k \in DOMAIN fs : fs[k] # NoFile}

store == [files |-> files, metadata |-> metadata, metadata_file |-> metadata_file]

-----------------------------------------------------------------------------
(* Configuration. *)

\* where ENABLE_CACHE can be set, and the texts tried
EnableCacheSettings ==
    {[src |-> "default", text |-> "true"]}
    \cup [src : {"file", "env"}, text : {"true", "false"}]

\* the conversion Config._read and Config.get apply to a text: "true" and
\* "false" become booleans
convert(text) ==
    IF text \in {"true", "false"}
    THEN [type |-> "bool", text |-> text]
    ELSE [type |-> "str", text |-> text]

\* config.get("ENABLE_CACHE"): the environment (converted), else the value
\* Config._read put in the dict (converted), else DEFAULT_CONFIG's string
config_get(ec) ==
    CASE ec.src = "env" -> convert(ec.text)
      [] ec.src = "file" -> convert(ec.text)
      [] OTHER -> [type |-> "str", text |-> ec.text]

\* config.get("ENABLE_CACHE") != "true"
cache_disabled(ec) == config_get(ec) # [type |-> "str", text |-> "true"]

-----------------------------------------------------------------------------
(* Results and their serialization. *)

NoResult == [kind |-> "none", content |-> ""]

Generator == [kind |-> "generator", content |-> ""]

\* what one call of the provider operation can do
Outcomes == {"raise", "none", "bool", "no_choices", "empty_choices", "response"}

\* the content of a result that json.dumps cannot write even with default=str
\* (a dict in it has a key that is no str, int, float, bool or None)
Unencodable == "<dict with a tuple key>"

\* the object the provider call returned
response_of(outcome) ==
    CASE outcome = "response" -> [kind |-> "ModelResponse", content |-> "hello"]
      [] outcome = "empty_choices" -> [kind |-> "ModelResponse", content |-> "<no choices>"]
      [] outcome = "unencodable" -> [kind |-> "ModelResponse", content |-> Unencodable]
      [] OTHER -> [kind |-> "CustomStreamWrapper", content |-> ""]

\* the cross mark U+274C as default_handler.py has it, and the two characters
\* U+00E2 U+0152 that llm.py has in its place (the bytes of the mark decoded in
\* another encoding)
CrossMark == "<U+274C>"
CrossMarkInClient == "<U+00E2><U+0152>"

\* BaseLLMClient._create_error_response
create_error_response(msg) ==
    [kind |-> "MockResponse", content |-> CrossMarkInClient \o " Error: " \o msg]

\* str(obj): MockResponse defines no __str__, so its text carries no content
str(obj) ==
    IF obj.kind = "MockResponse" THEN "<MockResponse object>"
    ELSE obj.kind \o "(" \o obj.content \o ")"

\* json.dumps(result, default=str): no result object is JSON-serializable, each
\* is written as the JSON string of str(result)
json_dumps(obj) == "\"" \o str(obj) \o "\""

\* the exception json.dumps(result, default=str) ends with, if any
json_dumps_error(obj) == IF obj.content = Unencodable THEN "TypeError" ELSE None

Serialized ==
    {json_dumps(response_of(o)) : o \in Outcomes} \cup {json_dumps(create_error_response(""))}

\* a payload file that open(..., 'w') has truncated and nothing was written to
Truncated == ""

\* json.loads(text) returns: the text is a JSON document
json_decodes(text) == text \in Serialized \cup Payloads

\* json.loads(text) for the texts the store can hold
json_loads(text) ==
    IF text \in Serialized
    THEN [kind |-> "str",
          content |-> str(CHOOSE r \in {response_of(o) : o \in Outcomes}
                                       \cup {create_error_response("")} :
                                json_dumps(r) = text)]
    ELSE [kind |-> "int", content |-> text]

-----------------------------------------------------------------------------
(* The retry executor, BaseLLMClient._retry_with_backoff. *)

\* BaseLLMClient.retry_delay, in seconds
retry_delay == 1

\* the exception one attempt ends with (its message), or None
attempt_error(outcome, stream) ==
    CASE outcome = "raise" -> "connection reset"
      [] outcome = "none" -> "API returned None response"
      [] outcome = "bool" -> "API returned boolean"
      [] outcome = "interrupt" -> "KeyboardInterrupt"
      [] outcome = "no_choices" /\ ~stream -> "API response missing 'choices' attribute"
      [] outcome = "empty_choices" /\ ~stream -> "API response has empty choices"
      [] OTHER -> None

\* the class of that exception: the provider's errors derive from Exception,
\* the checks of the result raise ValueError, Ctrl-C during the call raises
\* KeyboardInterrupt
exception_class(outcome) ==
    IF outcome = "raise" THEN "Exception"
    ELSE IF outcome = "interrupt" THEN "KeyboardInterrupt"
    ELSE "ValueError"

\* variant: except BaseException as e
except_BaseException(class) == TRUE

\* except Exception as e
except_Exception(class) == class \in {"Exception", "ValueError", "AttributeError"}

\* variant: the same delay before every retry
backoff_delay_constant(n) == retry_delay

\* delay = self.retry_delay * (2 ** attempt)
backoff_delay(n) == retry_delay * Pow2(n)

\* variant: range(self.max_retries)
last_attempt_one_early(n, maxr) == n + 1 >= maxr

\* if attempt == self.max_retries: break
last_attempt(n, maxr) == n = maxr

-----------------------------------------------------------------------------
(* The fragment generator, BaseLLMClient._stream_completion. *)

\* hasattr(stream, '__iter__'): the error response is a plain object
has_iter(obj) == obj.kind # "MockResponse"

\* getattr(stream, 'content', str(stream)): the error response keeps its text
\* in choices[0].message.content and has no attribute content
getattr_content(obj) == str(obj)

streaming_error(text) == "Streaming Error: " \o text

calling_function(name) == "Calling function: " \o name

\* a tool call whose function attribute is None
NoFunction == "<no function>"

\* what the provider's iterator hands over or does: a chunk with its choices
\* attribute (absent, empty, or one choice), the delta attribute of the choice
\* (absent or present), delta.content and the function names of
\* delta.tool_calls; or the exception it raises
Chunk(choices, delta, content, tool_calls) ==
    [kind |-> "chunk", choices |-> choices, delta |-> delta, content |-> content,
     tool_calls |-> tool_calls]

TransportError == [Chunk("absent", "absent", "", <<>>) EXCEPT !.kind = "raise"]

Chunks ==
    {Chunk("absent", "absent", "", <<>>), Chunk("empty", "absent", "", <<>>),
     Chunk("one", "absent", "", <<>>)}
    \cup {Chunk("one", "present", c, <<>>) : c \in {"a", "b"}}
    \cup {Chunk("one", "present", "", t) :
              t \in {<<>>, <<"ls">>, <<"">>, <<NoFunction>>, <<"ls", NoFunction>>}}

\* for tool_call in delta.tool_calls: if tool_call.function.name: yield ...
RECURSIVE tool_call_fragments(_)
tool_call_fragments(calls) ==
    IF calls = <<>> THEN [yielded |-> <<>>, raised |-> None]
    ELSE IF Head(calls) = NoFunction THEN [yielded |-> <<>>, raised |-> "AttributeError"]
    ELSE LET rest == tool_call_fragments(Tail(calls))
             here == IF Head(calls) # "" THEN <<calling_function(Head(calls))>> ELSE <<>>
         IN  [yielded |-> here \o rest.yielded, raised |-> rest.raised]

\* the body of the loop over the chunks: the fragments it yields and the
\* exception it ends with, if any
process_chunk(chunk) ==
    IF chunk.choices \in {"absent", "empty"} THEN [yielded |-> <<>>, raised |-> None]
    ELSE IF chunk.delta = "absent" THEN [yielded |-> <<>>, raised |-> "AttributeError"]
    ELSE IF chunk.content # "" THEN [yielded |-> <<chunk.content>>, raised |-> None]
    ELSE tool_call_fragments(chunk.tool_calls)

\* the generator is not inside a loop body
NoPending == [rest |-> <<>>, raised |-> None]

\* str(e) of the exceptions the loop can end with
exception_text(class) ==
    IF class = "AttributeError" THEN "object has no attribute" ELSE "connection reset"

-----------------------------------------------------------------------------
(* The caching decorator, cache_response.wrapper. *)

\* variant: except ValueError
wrapper_except_ValueError(class) == class = "ValueError"

\* except (TypeError, ValueError) around json.dumps and cache.set
wrapper_except(class) == class \in {"TypeError", "ValueError"}

\* except IOError of Cache.set
set_except(class) == class = "IOError"

\* variant: only the configuration and the stream flag are looked at
wrapper_bypasses_ignoring_tools(ec, req) ==
    \/ cache_disabled(ec)
    \/ req.stream

\* the three early returns of the wrapper
wrapper_bypasses(ec, req) ==
    \/ cache_disabled(ec)
    \/ req.functions # "null" \/ req.tools # "absent"
    \/ req.stream

-----------------------------------------------------------------------------
(* Option validation, BaseHandler.validate_options, and the keyword arguments *)
(* BaseLLMClient.complete builds for the provider call.  A float is counted   *)
(* in tenths; max_tokens is <<>> for None and <<n>> for the integer n.        *)

Float(v) == [nan |-> FALSE, tenths |-> v]
NaN == [nan |-> TRUE, tenths |-> 0]

\* a <= b and a < b on floats: false as soon as one side is not a number
float_le(a, b) == ~a.nan /\ ~b.nan /\ a.tenths <= b.tenths
float_lt(a, b) == ~a.nan /\ ~b.nan /\ a.tenths < b.tenths

\* min(a, b) and max(a, b): the first argument unless the second beats it
py_min(a, b) == IF float_lt(b, a) THEN b ELSE a
py_max(a, b) == IF float_lt(a, b) THEN b ELSE a

Floats == {Float(v) : v \in -2..MaxTenths} \cup {NaN}
NoTokens == <<>>
TokenCounts == {NoTokens} \cup {<<n>> : n \in -MaxTokens..MaxTokens}
OptionNames == {"temperature", "top_p", "max_tokens"}

\* the options a handler may be called with; given: the names present
Options == [given : SUBSET OptionNames, temperature : Floats, top_p : Floats,
            max_tokens : TokenCounts]
NoOptions == [given |-> {}, temperature |-> Float(0), top_p |-> Float(0),
              max_tokens |-> NoTokens]

\* options.get(name, default)
options_get(opts, name, default) ==
    IF name \in opts.given THEN opts[name] ELSE default

\* not lo <= x <= hi
out_of_range(lo, x, hi) == ~(float_le(lo, x) /\ float_le(x, hi))

\* the temperature and top_p blocks: max(lo, min(hi, x)) when out of range
clamp(lo, x, hi) == IF out_of_range(lo, x, hi) THEN py_max(lo, py_min(hi, x)) ELSE x

\* the max_tokens block: not None and <= 0 is ignored
positive_or_none_allowing_zero(mt) == IF mt # NoTokens /\ mt[1] < 0 THEN NoTokens ELSE mt
positive_or_none(mt) == IF mt # NoTokens /\ mt[1] <= 0 THEN NoTokens ELSE mt

\* the warnings validate_options prints
validate_warnings(opts) ==
    (IF out_of_range(Float(0), options_get(opts, "temperature", Float(0)), Float(20))
     THEN <<"Warning: Temperature out of range">> ELSE <<>>)
    \o (IF out_of_range(Float(0), options_get(opts, "top_p", Float(10)), Float(10))
        THEN <<"Warning: top_p out of range">> ELSE <<>>)
    \o (IF positive_or_none(options_get(opts, "max_tokens", NoTokens))
            # options_get(opts, "max_tokens", NoTokens)
        THEN <<"Warning: max_tokens must be positive">> ELSE <<>>)

\* BaseHandler.validate_options: every name is present in the result
validate_options(opts) ==
    [given |-> OptionNames,
     temperature |-> clamp(Float(0), options_get(opts, "temperature", Float(0)), Float(20)),
     top_p |-> clamp(Float(0), options_get(opts, "top_p", Float(10)), Float(10)),
     max_tokens |-> positive_or_none(options_get(opts, "max_tokens", NoTokens))]

\* complete(): completion_kwargs; max_tokens is passed on only when not None
NoKwargs == [keys |-> {}, temperature |-> Float(0), top_p |-> Float(0), max_tokens |-> NoTokens]
complete_kwargs(temperature, top_p, max_tokens) ==
    [keys |-> {"temperature", "top_p"}
              \cup (IF max_tokens # NoTokens THEN {"max_tokens"} ELSE {}),
     temperature |-> temperature, top_p |-> top_p, max_tokens |-> max_tokens]

-----------------------------------------------------------------------------
(* DefaultHandler.handle, the handler main() routes every prompt to.  Its      *)
(* get_completion overrides the decorated one of BaseHandler and calls         *)
(* client.complete directly.                                                   *)

\* what can follow a prefix in the content of a response
ContentTails ==
    {"", "hello"} \cup {" " \o attempt_error(o, FALSE) : o \in Outcomes \ {"response"}}

\* text.startswith(prefix)
startswith(text, prefix) == \E rest \in ContentTails : text = prefix \o rest

\* console.print(f"[red]{content}[/red]") and print_response(content)
print_red(text) == "[red]" \o text \o "[/red]"
print_response(text) == "Markdown(" \o text \o ")"
shell_interaction(text) == "_handle_shell_interaction(" \o text \o ")"

\* the non-streaming branch of handle once get_completion has returned:
\* response is an object with choices[0].message.content
handle_prints(response, val) ==
    IF startswith(response.content, CrossMark \o " Error:")
    THEN <<print_red(response.content)>>
    ELSE <<print_response(response.content)>>
         \o (IF "interactive" \in val.given THEN <<shell_interaction(response.content)>>
             ELSE <<>>)

\* handler_options of main(), as far as handle reads them: --interactive given or not
HandlerOptions == {[NoOptions EXCEPT !.given = g] : g \in {{}, {"interactive"}}}

-----------------------------------------------------------------------------
(* Bookkeeping of the calls made on the store. *)

\* time.time(): the wall clock does not run backwards and may return the same
\* value twice
Times == {t \in {now, now + 1} : t <= MaxTime}

NoOp == [op |-> "init", key |-> None, value |-> None, ret |-> None]

\* history after a state-changing call e made at time t
hist_valid_after(t) ==
    histValid /\ Len(history) < MaxHist /\ (history # <<>> => t > now)

history_after(e, t) == IF hist_valid_after(t) THEN Append(history, e) ELSE <<>>

\* the cache calls of the wrapper are not logged in history
HistoryLost ==
    /\ history' = <<>>
    /\ histValid' = FALSE

StoreIs(c) ==
    /\ files' = c.files
    /\ metadata' = c.metadata
    /\ metadata_file' = c.metadata_file

\* the value of request before the first call
NoRequest == [messages |-> "m1", stream |-> FALSE, functions |-> "null", tools |-> "absent"]

\* no call is in flight: the caller is free to make another one
CallerFree ==
    pc \in {"idle", "generator", "streaming", "failed", "exhausted", "raised", "cancelled"}

IdleRequest ==
    /\ CallerFree
    /\ UNCHANGED requestVars

-----------------------------------------------------------------------------
(* The calls of the Cache API, made while no request is in flight. *)

\* Cache.set(key, value)
CacheSet(key, value) ==
    /\ IdleRequest
    /\ \E t \in Times :
          /\ StoreIs(cache_set(store, max_size, key, value, t))
          /\ now' = t
          /\ histValid' = hist_valid_after(t)
          /\ history' = history_after([op |-> "set", key |-> key, value |-> value], t)
    /\ lastOp' = [op |-> "set", key |-> key, value |-> value, ret |-> None]
    /\ UNCHANGED <<max_size, configVars, keyVars, handlerVars, pullVars, peerVars>>

\* Cache.set(key, value) whose eviction pass cannot delete the payload files of
\* stuck; lastOp keeps the keys the pass had selected and those it failed on
CacheSetUnlinkFails(key, value, stuck) ==
    /\ IdleRequest
    /\ \E t \in Times :
          LET order == eviction_order(dict_set(metadata, key, t), max_size)
              fs == [files EXCEPT ![get_cache_file(key)] = value]
              failed == {k \in Range(order) : unlink_fails(fs, stuck, k)}
          IN  /\ failed # {}
              /\ StoreIs(cache_set_unlink_fails(store, max_size, key, value, t, stuck))
              /\ now' = t
              /\ lastOp' = [op |-> "set", key |-> key, value |-> value, ret |-> None,
                            selected |-> Range(order), failed |-> failed]
    /\ HistoryLost
    /\ UNCHANGED <<max_size, configVars, keyVars, handlerVars, pullVars, peerVars>>

\* a second process constructs its Cache over the same cache_dir
PeerStart ==
    /\ IdleRequest
    /\ ~peer_live
    /\ peer_live' = TRUE
    /\ peer_metadata' = load_metadata(metadata_file)
    /\ UNCHANGED <<cacheVars, configVars, keyVars, handlerVars, pullVars>>

\* Cache.set(key, value) called in the second process, between two calls of
\* the first: it works on its own self.metadata and on the shared files
PeerSet(key, value) ==
    /\ IdleRequest
    /\ peer_live
    /\ \E t \in Times :
          LET c == cache_set([files |-> files, metadata |-> peer_metadata,
                              metadata_file |-> metadata_file], max_size, key, value, t)
          IN  /\ files' = c.files
              /\ peer_metadata' = c.metadata
              /\ metadata_file' = c.metadata_file
              /\ now' = t
    /\ lastOp' = [op |-> "set", key |-> key, value |-> value, ret |-> None, by |-> "peer"]
    /\ HistoryLost
    /\ UNCHANGED <<max_size, metadata, peer_live, configVars, keyVars, handlerVars, pullVars>>

\* Cache.get(key)
CacheGet(key) ==
    /\ IdleRequest
    /\ IF is_hit(cache_get_ret(store, key))
       THEN \E t \in Times :
               /\ StoreIs(cache_get(store, key, t))
               /\ now' = t
               /\ histValid' = hist_valid_after(t)
               /\ history' = history_after([op |-> "get", key |-> key, value |-> None], t)
       ELSE /\ StoreIs(cache_get(store, key, now))
            /\ UNCHANGED <<now, history, histValid>>
    /\ lastOp' = [op |-> "get", key |-> key, value |-> None, ret |-> cache_get_ret(store, key)]
    /\ UNCHANGED <<max_size, configVars, keyVars, handlerVars, pullVars, peerVars>>

\* Cache.get(key) when the open or the read of the payload file fails
CacheGetFails(key) ==
    /\ IdleRequest
    /\ file_exists(files, key)
    /\ lastOp' = [op |-> "get", key |-> key, value |-> read_error(files[key], "IOError"),
                  ret |-> get_failed(read_error(files[key], "IOError"))]
    /\ UNCHANGED <<max_size, files, metadata, metadata_file, now, history, histValid>>
    /\ UNCHANGED <<configVars, keyVars, handlerVars, pullVars, peerVars>>

\* the disk or another program damages a payload file
DamagePayload(key) ==
    /\ IdleRequest
    /\ file_exists(files, key)
    /\ files' = [files EXCEPT ![get_cache_file(key)] = Undecodable]
    /\ HistoryLost
    /\ UNCHANGED <<max_size, metadata, metadata_file, now, lastOp>>
    /\ UNCHANGED <<configVars, keyVars, handlerVars, pullVars, peerVars>>

\* Cache.clear(), reached through clear_cache()
CacheClear ==
    /\ IdleRequest
    /\ StoreIs(cache_clear(store))
    /\ history' = <<>>
    /\ histValid' = TRUE
    /\ lastOp' = [op |-> "clear", key |-> None, value |-> None, ret |-> None]
    /\ UNCHANGED <<max_size, now, configVars, keyVars, handlerVars, pullVars, peerVars>>

\* Config.__init__ of the next process: the first process found no
\* configuration file and wrote one with every default in it, the next one reads
\* ENABLE_CACHE from that file; the environment stays what it is
config_init(ec) == IF ec.src = "default" THEN [src |-> "file", text |-> ec.text] ELSE ec

\* the process exits and the next one starts: Config.__init__, and
\* Cache.__init__ over the same cache_dir
Start(loaded) ==
    /\ CallerFree
    /\ metadata' = loaded
    /\ enable_cache' = config_init(enable_cache)
    /\ lastOp' = NoOp
    /\ pc' = "idle"
    /\ via' = "client"
    /\ request' = NoRequest
    /\ attempt' = 0
    /\ invocations' = 0
    /\ outcomes' = <<>>
    /\ sleeps' = <<>>
    /\ last_exception' = None
    /\ retry_ret' = NoResult
    /\ result' = NoResult
    /\ storedAtCall' = NoFile
    /\ chunks' = <<>>
    /\ fragments' = <<>>
    /\ evicting' = <<>>
    /\ UNCHANGED <<max_size, files, metadata_file, now, history, histValid, max_retries,
                   keyVars, handlerVars, pullVars, peerVars>>

Restart == Start(load_metadata(metadata_file))

\* the same when the metadata file is there and cannot be read or parsed:
\* json.JSONDecodeError and IOError are passed over and {} is returned
RestartIndexUnreadable ==
    /\ metadata_file.exists
    /\ Start(<<>>)

-----------------------------------------------------------------------------
(* A completion request. *)

StartClient(req) ==
    /\ request' = req
    /\ attempt' = 0
    /\ invocations' = 0
    /\ outcomes' = <<>>
    /\ sleeps' = <<>>
    /\ last_exception' = None
    /\ retry_ret' = NoResult
    /\ chunks' = <<>>
    /\ fragments' = <<>>
    /\ IF req.stream
       THEN /\ pc' = "generator"
            /\ result' = Generator
       ELSE /\ pc' = "retry"
            /\ result' = NoResult

\* an exception leaves the wrapper before func is called
RaiseTo(req) ==
    /\ request' = req
    /\ attempt' = 0
    /\ invocations' = 0
    /\ outcomes' = <<>>
    /\ sleeps' = <<>>
    /\ last_exception' = None
    /\ retry_ret' = NoResult
    /\ chunks' = <<>>
    /\ fragments' = <<>>
    /\ result' = NoResult
    /\ pc' = "raised"

\* BaseLLMClient.complete called on the client: _stream_completion(...) makes a
\* generator and runs nothing, the other branch enters _retry_with_backoff
ClientComplete(req) ==
    /\ CallerFree
    /\ via' = "client"
    /\ storedAtCall' = NoFile
    /\ evicting' = <<>>
    /\ StartClient(req)
    /\ UNCHANGED <<cacheVars, configVars, keyVars, handlerVars, pullVars, peerVars>>

\* BaseHandler.get_completion called through the wrapper of cache_response:
\* the early returns, the key, cache.get, json.loads of a hit, else func(...)
FacadeComplete(req) ==
    /\ CallerFree
    /\ via' = "facade"
    /\ storedAtCall' = files[get_cache_file(request_key(req))]
    /\ evicting' = <<>>
    /\ IF wrapper_bypasses(enable_cache, req)
       THEN /\ StartClient(req)
            /\ UNCHANGED cacheVars
       ELSE LET key == request_key(req) IN
            IF is_hit(cache_get_ret(store, key)) /\ ~json_decodes(cache_get_ret(store, key))
            THEN \* json.JSONDecodeError: the payload was read and is treated as a miss
                 /\ \E t \in Times :
                       /\ StoreIs(cache_get(store, key, t))
                       /\ now' = t
                 /\ HistoryLost
                 /\ lastOp' = [op |-> "get", key |-> key, value |-> None,
                               ret |-> cache_get_ret(store, key)]
                 /\ StartClient(req)
                 /\ UNCHANGED max_size
            ELSE IF is_hit(cache_get_ret(store, key))
            THEN /\ \E t \in Times :
                       /\ StoreIs(cache_get(store, key, t))
                       /\ now' = t
                 /\ HistoryLost
                 /\ lastOp' = [op |-> "get", key |-> key, value |-> None,
                               ret |-> cache_get_ret(store, key)]
                 /\ request' = req
                 /\ attempt' = 0
                 /\ invocations' = 0
                 /\ outcomes' = <<>>
                 /\ sleeps' = <<>>
                 /\ last_exception' = None
                 /\ retry_ret' = NoResult
                 /\ chunks' = <<>>
                 /\ fragments' = <<>>
                 /\ result' = json_loads(cache_get_ret(store, key))
                 /\ pc' = "idle"
                 /\ UNCHANGED max_size
            ELSE /\ StoreIs(cache_get(store, key, now))
                 /\ lastOp' = [op |-> "get", key |-> key, value |-> None,
                               ret |-> cache_get_ret(store, key)]
                 /\ IF cache_get_ret(store, key) = Raised
                    THEN RaiseTo(req)
                    ELSE StartClient(req)
                 /\ UNCHANGED <<max_size, now, history, histValid>>
    /\ UNCHANGED <<configVars, keyVars, handlerVars, pullVars, peerVars>>

\* _cache is None: no call has reached get_cache() since the process started
cache_is_None == lastOp = NoOp

\* the exceptions Cache.__init__ can end with: OSError of mkdir when cache_dir
\* cannot be made, UnicodeDecodeError of json.load when the metadata file is not
\* UTF-8; _load_metadata passes over JSONDecodeError and IOError only
init_errors == {"OSError", "UnicodeDecodeError"}

\* the decorated get_completion when the first get_cache() of the process
\* fails: the wrapper calls get_cache() outside any try
FacadeCompleteInitFails(req, class) ==
    /\ CallerFree
    /\ ~wrapper_bypasses(enable_cache, req)
    /\ cache_is_None
    /\ class \in init_errors
    /\ via' = "facade"
    /\ storedAtCall' = files[get_cache_file(request_key(req))]
    /\ evicting' = <<>>
    /\ RaiseTo(req)
    /\ UNCHANGED <<cacheVars, configVars, keyVars, handlerVars, pullVars, peerVars>>

\* the decorated get_completion when the read of the stored payload fails:
\* cache.get returns None and func is called
FacadeCompleteReadFails(req) ==
    /\ CallerFree
    /\ ~wrapper_bypasses(enable_cache, req)
    /\ file_exists(files, request_key(req))
    /\ via' = "facade"
    /\ storedAtCall' = files[get_cache_file(request_key(req))]
    /\ evicting' = <<>>
    /\ LET key == request_key(req)
           err == read_error(files[get_cache_file(key)], "IOError")
       IN  /\ lastOp' = [op |-> "get", key |-> key, value |-> err, ret |-> get_failed(err)]
           /\ IF get_failed(err) = Raised THEN RaiseTo(req) ELSE StartClient(req)
    /\ UNCHANGED <<max_size, files, metadata, metadata_file, now, history, histValid>>
    /\ UNCHANGED <<configVars, keyVars, handlerVars, pullVars, peerVars>>

\* the first next() on the generator of _stream_completion: the handshake
\* enters _retry_with_backoff
FirstPull ==
    /\ pc = "generator"
    /\ pc' = "retry"
    /\ UNCHANGED <<via, request, attempt, invocations, outcomes, sleeps, last_exception,
                   retry_ret, result, storedAtCall, chunks, fragments, evicting>>
    /\ UNCHANGED <<cacheVars, configVars, keyVars, handlerVars, pullVars, peerVars>>

\* _retry_with_backoff has returned ret: the handshake of a stream is over, or
\* complete() returns ret and the wrapper, if it looked the key up, serializes
\* ret, calls cache.set and returns ret. how tells what the cache.set of this
\* request is taken as: "set" is the whole call, with "statements" the step ends
\* where cache.set is entered and its statements are steps of their own, with
\* "IOError" the payload file cannot be opened for writing.
Returned(ret, how) ==
    /\ retry_ret' = ret
    /\ IF request.stream
       THEN /\ IF has_iter(ret)
               THEN /\ pc' = "streaming"
                    /\ UNCHANGED fragments
               ELSE /\ pc' = "failed"
                    /\ fragments' = Append(fragments, streaming_error(getattr_content(ret)))
            /\ UNCHANGED <<result, chunks>>
            /\ UNCHANGED cacheVars
       ELSE IF via # "facade" \/ wrapper_bypasses(enable_cache, request)
       THEN /\ pc' = "idle"
            /\ result' = ret
            /\ UNCHANGED <<chunks, fragments>>
            /\ UNCHANGED cacheVars
       ELSE IF json_dumps_error(ret) # None
       THEN \* json.dumps raises: the wrapper's except, or the exception leaves it
            /\ IF wrapper_except(json_dumps_error(ret))
               THEN /\ pc' = "idle"
                    /\ result' = ret
               ELSE /\ pc' = "raised"
                    /\ UNCHANGED result
            /\ UNCHANGED <<chunks, fragments>>
            /\ UNCHANGED cacheVars
       ELSE IF how = "statements"
       THEN \* cache.set is entered
            /\ pc' = "set_open"
            /\ UNCHANGED <<result, chunks, fragments>>
            /\ UNCHANGED cacheVars
       ELSE IF how = "IOError"
       THEN \* open(cache_file, 'w') raises IOError
            /\ IF set_except("IOError") \/ wrapper_except("IOError")
               THEN /\ pc' = "idle"
                    /\ result' = ret
               ELSE /\ pc' = "raised"
                    /\ UNCHANGED result
            /\ lastOp' = [op |-> "set", key |-> request_key(request),
                          value |-> json_dumps(ret), ret |-> "IOError"]
            /\ UNCHANGED <<chunks, fragments>>
            /\ UNCHANGED <<max_size, files, metadata, metadata_file, now, history, histValid>>
       ELSE /\ pc' = "idle"
            /\ result' = ret
            /\ UNCHANGED <<chunks, fragments>>
            /\ \E t \in Times :
                  /\ StoreIs(cache_set(store, max_size, request_key(request),
                                       json_dumps(ret), t))
                  /\ now' = t
            /\ HistoryLost
            /\ lastOp' = [op |-> "set", key |-> request_key(request),
                          value |-> json_dumps(ret), ret |-> None]
            /\ UNCHANGED max_size

\* one iteration of the loop of _retry_with_backoff: the call, the checks of
\* its result, and on failure the break or the sleep
AttemptThen(outcome, how) ==
    /\ pc = "retry"
    /\ invocations' = invocations + 1
    /\ outcomes' = Append(outcomes, outcome)
    /\ LET err == attempt_error(outcome, request.stream) IN
        IF err = None
        THEN /\ Returned(response_of(outcome), how)
             /\ UNCHANGED <<attempt, sleeps, last_exception>>
        ELSE IF ~except_Exception(exception_class(outcome))
        THEN /\ pc' = IF exception_class(outcome) = "KeyboardInterrupt" THEN "cancelled"
                      ELSE "raised"
             /\ UNCHANGED <<attempt, sleeps, last_exception, retry_ret, result, chunks,
                            fragments, cacheVars>>
        ELSE /\ last_exception' = err
             /\ IF last_attempt(attempt, max_retries)
                THEN /\ Returned(create_error_response(err), how)
                     /\ UNCHANGED <<attempt, sleeps>>
                ELSE /\ sleeps' = Append(sleeps, backoff_delay(attempt))
                     /\ attempt' = attempt + 1
                     /\ UNCHANGED <<pc, retry_ret, result, chunks, fragments, cacheVars>>
    /\ UNCHANGED <<via, request, storedAtCall, evicting, configVars, keyVars, handlerVars, pullVars, peerVars>>

\* an iteration of the loop that runs to its end, cache.set included
Attempt(outcome) == AttemptThen(outcome, "set")

\* an iteration whose cache.set cannot write the payload file
AttemptSetFails(outcome) == AttemptThen(outcome, "IOError")

\* variant: an exception in the loop ends the generator with no fragment
stream_except_silent(class) == <<>>

\* except Exception as e: yield the error fragment
stream_except(class) ==
    IF except_Exception(class) THEN <<streaming_error(exception_text(class))>> ELSE <<>>

\* variant: an exception in the loop goes back into the retry loop
after_stream_error_retried(class) == "retry"

\* where an exception in the loop leaves the generator: suspended at the yield
\* of the except clause with nothing after it, or ended by the exception
after_stream_error(class) == IF except_Exception(class) THEN "failed" ELSE "raised"

\* the iterator hands over one chunk and the loop body runs on it
NextChunk(chunk) ==
    /\ pc = "streaming"
    /\ Len(chunks) < MaxChunks
    /\ chunks' = Append(chunks, chunk)
    /\ LET done == process_chunk(chunk) IN
         IF done.raised = None
         THEN /\ fragments' = fragments \o done.yielded
              /\ pc' = "streaming"
         ELSE /\ fragments' = fragments \o done.yielded \o stream_except(done.raised)
              /\ pc' = after_stream_error(done.raised)
    /\ UNCHANGED <<via, request, attempt, invocations, outcomes, sleeps, last_exception,
                   retry_ret, result, storedAtCall, evicting>>
    /\ UNCHANGED <<cacheVars, configVars, keyVars, handlerVars, pullVars, peerVars>>

\* the iterator raises instead of handing over a chunk
TransportRaise ==
    /\ pc = "streaming"
    /\ chunks' = Append(chunks, TransportError)
    /\ fragments' = fragments \o stream_except("Exception")
    /\ pc' = after_stream_error("Exception")
    /\ UNCHANGED <<via, request, attempt, invocations, outcomes, sleeps, last_exception,
                   retry_ret, result, storedAtCall, evicting>>
    /\ UNCHANGED <<cacheVars, configVars, keyVars, handlerVars, pullVars, peerVars>>

\* the iterator is exhausted: the loop and the generator end
StreamStop ==
    /\ pc = "streaming"
    /\ pc' = "exhausted"
    /\ UNCHANGED <<via, request, attempt, invocations, outcomes, sleeps, last_exception,
                   retry_ret, result, storedAtCall, chunks, fragments, evicting>>
    /\ UNCHANGED <<cacheVars, configVars, keyVars, handlerVars, pullVars, peerVars>>

\* next() after the error fragment: the generator returns
PullAfterError ==
    /\ pc = "failed"
    /\ pc' = "exhausted"
    /\ UNCHANGED <<via, request, attempt, invocations, outcomes, sleeps, last_exception,
                   retry_ret, result, storedAtCall, chunks, fragments, evicting>>
    /\ UNCHANGED <<cacheVars, configVars, keyVars, handlerVars, pullVars, peerVars>>

\* the fragments one run of the loop body hands over, a yield each: those of
\* the chunk and, when the body raises, the fragment of the except clause
body_yields(chunk) ==
    LET done == process_chunk(chunk) IN
      IF done.raised = None THEN done.yielded
      ELSE done.yielded \o stream_except(done.raised)

\* variant: the fragments of a loop body are handed over together
yield_whole_body(due) == due

\* yield: the first fragment due is handed to the consumer and the generator
\* is suspended there
yield(due) == <<Head(due)>>

\* the consumer's next() on the generator, as the for loop of stream_response
\* makes it: a generator not yet started enters the handshake, one suspended at
\* a yield goes on from there, to the next yield of the same loop body, to the
\* read of the next chunk, or to its end after the fragment of the except clause
Pull ==
    /\ pc \in {"generator", "suspended", "failed"}
    /\ pulls' = pulls + 1
    /\ IF pc = "generator"
       THEN /\ pc' = "retry"
            /\ UNCHANGED <<fragments, pending>>
       ELSE IF pc = "failed"
       THEN /\ pc' = "exhausted"
            /\ UNCHANGED <<fragments, pending>>
       ELSE IF pending.rest # <<>>
       THEN /\ fragments' = fragments \o yield(pending.rest)
            /\ pending' = [pending EXCEPT
                             !.rest = SubSeq(pending.rest, Len(yield(pending.rest)) + 1,
                                             Len(pending.rest))]
            /\ pc' = "suspended"
       ELSE /\ pc' = IF pending.raised = None THEN "streaming"
                     ELSE IF except_Exception(pending.raised) THEN "exhausted"
                     ELSE "raised"
            /\ pending' = NoPending
            /\ UNCHANGED fragments
    /\ UNCHANGED <<via, request, attempt, invocations, outcomes, sleeps, last_exception,
                   retry_ret, result, storedAtCall, chunks, evicting>>
    /\ UNCHANGED <<cacheVars, configVars, keyVars, handlerVars, peerVars>>

\* inside a next(): the iterator hands over one chunk and the loop body runs on
\* it up to its first yield
ReadChunk(chunk) ==
    /\ pc = "streaming"
    /\ Len(chunks) < MaxChunks
    /\ chunks' = Append(chunks, chunk)
    /\ LET due == body_yields(chunk) IN
         IF due = <<>>
         THEN /\ pc' = IF process_chunk(chunk).raised = None THEN "streaming" ELSE "raised"
              /\ UNCHANGED <<fragments, pending>>
         ELSE /\ fragments' = fragments \o yield(due)
              /\ pending' = [rest |-> SubSeq(due, Len(yield(due)) + 1, Len(due)),
                             raised |-> process_chunk(chunk).raised]
              /\ pc' = "suspended"
    /\ UNCHANGED <<via, request, attempt, invocations, outcomes, sleeps, last_exception,
                   retry_ret, result, storedAtCall, evicting, pulls>>
    /\ UNCHANGED <<cacheVars, configVars, keyVars, handlerVars, peerVars>>

\* complete(stream=True) called once
CreateGenerator(req) ==
    /\ pc = "idle"
    /\ ClientComplete(req)

\* DefaultHandler.handle called with an empty prompt
HandleEmptyPrompt ==
    /\ pc = "idle" /\ result = NoResult
    /\ console' = <<print_red("Error: Empty prompt provided")>>
    /\ UNCHANGED <<options, validated, completion_kwargs, handled>>
    /\ UNCHANGED <<cacheVars, configVars, requestVars, keyVars, pullVars, peerVars>>

\* DefaultHandler.handle up to the call of the client: validate_options,
\* make_messages, DefaultHandler.get_completion, which is client.complete
HandleCall(opts, req) ==
    /\ pc = "idle" /\ result = NoResult
    /\ Len(handled) < MaxHandled
    /\ options' = opts
    /\ validated' = validate_options(opts)
    /\ console' = validate_warnings(opts)
    /\ completion_kwargs' = complete_kwargs(validate_options(opts).temperature,
                                            validate_options(opts).top_p,
                                            validate_options(opts).max_tokens)
    /\ via' = "handler"
    /\ storedAtCall' = files[get_cache_file(request_key(req))]
    /\ evicting' = <<>>
    /\ StartClient(req)
    /\ UNCHANGED <<handled, cacheVars, configVars, keyVars, pullVars, peerVars>>

\* DefaultHandler.handle from the return of get_completion on: the response is
\* printed, as an error or as the answer, and handle returns None
HandleReturn ==
    /\ via = "handler" /\ pc = "idle" /\ result # NoResult
    /\ console' = console \o handle_prints(result, validated)
    /\ handled' = Append(handled, [request |-> request, invocations |-> invocations,
                                   response |-> result,
                                   printed |-> handle_prints(result, validated)])
    /\ result' = NoResult
    /\ UNCHANGED <<options, validated, completion_kwargs>>
    /\ UNCHANGED <<pc, via, request, attempt, invocations, outcomes, sleeps, last_exception,
                   retry_ret, storedAtCall, chunks, fragments, evicting>>
    /\ UNCHANGED <<cacheVars, configVars, keyVars, pullVars, peerVars>>

-----------------------------------------------------------------------------
(* Cache.set statement by statement, and the user's interrupt. *)

\* the arguments of the cache.set the wrapper makes for the request in flight
set_key == request_key(request)

set_value == json_dumps(retry_ret)

\* a statement of cache.set leaves the request and the configuration alone
StatementOfSet ==
    /\ UNCHANGED <<via, request, attempt, invocations, outcomes, sleeps, last_exception,
                   retry_ret, storedAtCall, chunks, fragments>>
    /\ UNCHANGED <<max_size, configVars, keyVars, handlerVars, pullVars, peerVars>>

\* open(cache_file, 'w'): the payload file is created or truncated
SetOpen ==
    /\ pc = "set_open"
    /\ files' = [files EXCEPT ![get_cache_file(set_key)] = Truncated]
    /\ pc' = "set_write"
    /\ HistoryLost
    /\ UNCHANGED <<metadata, metadata_file, now, lastOp, result, evicting>>
    /\ StatementOfSet

\* f.write(value) and the close at the end of the with block
SetWrite ==
    /\ pc = "set_write"
    /\ files' = [files EXCEPT ![get_cache_file(set_key)] = set_value]
    /\ pc' = "set_touch"
    /\ UNCHANGED <<metadata, metadata_file, now, lastOp, history, histValid, result, evicting>>
    /\ StatementOfSet

\* self.metadata[key] = time.time(), and the head of _cleanup_old_entries: the
\* early return or the list sorted_items[:items_to_remove]
SetTouch ==
    /\ pc = "set_touch"
    /\ \E t \in Times :
          LET meta == dict_set(metadata, set_key, t)
              old == slice_to(sorted_items(meta), items_to_remove(meta, max_size))
          IN  /\ now' = t
              /\ metadata' = meta
              /\ IF Len(meta) <= max_size
                 THEN /\ pc' = "set_save"
                      /\ evicting' = <<>>
                 ELSE /\ pc' = "cleanup_unlink"
                      /\ evicting' = [i \in 1..Len(old) |-> old[i].key]
    /\ UNCHANGED <<files, metadata_file, lastOp, history, histValid, result>>
    /\ StatementOfSet

\* if cache_file.exists(): cache_file.unlink()
CleanupUnlink ==
    /\ pc = "cleanup_unlink"
    /\ files' = [files EXCEPT ![get_cache_file(Head(evicting))] = NoFile]
    /\ pc' = "cleanup_del"
    /\ UNCHANGED <<metadata, metadata_file, now, lastOp, history, histValid, result, evicting>>
    /\ StatementOfSet

\* del self.metadata[key], and the next turn of the loop or its end
CleanupDel ==
    /\ pc = "cleanup_del"
    /\ metadata' = SelectSeq(metadata, LAMBDA e : e.key # Head(evicting))
    /\ evicting' = Tail(evicting)
    /\ pc' = IF Tail(evicting) = <<>> THEN "cleanup_save" ELSE "cleanup_unlink"
    /\ UNCHANGED <<files, metadata_file, now, lastOp, history, histValid, result>>
    /\ StatementOfSet

\* self._save_metadata() at the end of _cleanup_old_entries
CleanupSave ==
    /\ pc = "cleanup_save"
    /\ metadata_file' = save_metadata(metadata)
    /\ pc' = "set_save"
    /\ UNCHANGED <<files, metadata, now, lastOp, history, histValid, result, evicting>>
    /\ StatementOfSet

\* self._save_metadata() at the end of set; the wrapper returns the result
SetSave ==
    /\ pc = "set_save"
    /\ metadata_file' = save_metadata(metadata)
    /\ pc' = "idle"
    /\ result' = retry_ret
    /\ lastOp' = [op |-> "set", key |-> set_key, value |-> set_value, ret |-> None]
    /\ UNCHANGED <<files, metadata, now, history, histValid, evicting>>
    /\ StatementOfSet

\* where a KeyboardInterrupt can reach the request: in the provider call or the
\* sleep of the retry loop, and before each statement of cache.set
Interruptible ==
    {"retry", "set_open", "set_write", "set_touch", "cleanup_unlink", "cleanup_del",
     "cleanup_save", "set_save"}

\* Ctrl-C: KeyboardInterrupt is no Exception, it leaves _retry_with_backoff,
\* Cache.set and the wrapper and is caught in DefaultHandler.handle
Interrupt ==
    /\ pc \in Interruptible
    /\ pc' = "cancelled"
    /\ evicting' = <<>>
    /\ UNCHANGED <<via, request, attempt, invocations, outcomes, sleeps, last_exception,
                   retry_ret, result, storedAtCall, chunks, fragments>>
    /\ UNCHANGED <<cacheVars, configVars, keyVars, handlerVars, pullVars, peerVars>>

\* an iteration of the retry loop that hands over to the statements of cache.set
AttemptToSet(outcome) == AttemptThen(outcome, "statements")

-----------------------------------------------------------------------------
(* Initial state: configuration read, Cache constructed over an empty cache_dir, *)
(* no request in flight.                                                         *)

InitHandler ==
    /\ options = NoOptions
    /\ validated = NoOptions
    /\ completion_kwargs = NoKwargs
    /\ console = <<>>
    /\ handled = <<>>

InitRequest ==
    /\ pc = "idle"
    /\ via = "client"
    /\ request = NoRequest
    /\ attempt = 0
    /\ invocations = 0
    /\ outcomes = <<>>
    /\ sleeps = <<>>
    /\ last_exception = None
    /\ retry_ret = NoResult
    /\ result = NoResult
    /\ storedAtCall = NoFile
    /\ chunks = <<>>
    /\ fragments = <<>>
    /\ evicting = <<>>
    /\ pulls = 0
    /\ pending = NoPending

InitStore ==
    /\ files = [k \in AllKeys |-> NoFile]
    /\ metadata = <<>>
    /\ metadata_file = [exists |-> FALSE, data |-> <<>>]
    /\ peer_metadata = <<>>
    /\ peer_live = FALSE
    /\ now = 0
    /\ lastOp = NoOp
    /\ history = <<>>
    /\ histValid = TRUE

Init ==
    /\ max_size \in 0..MaxCapacity
    /\ InitStore
    /\ keycall = NoKeyCall
    /\ InitHandler
    /\ enable_cache = [src |-> "default", text |-> "true"]
    /\ max_retries = 0
    /\ InitRequest

NextCache ==
    \/ \E key \in Keys, value \in Payloads : CacheSet(key, value)
    \/ \E key \in Keys : CacheGet(key)
    \/ CacheClear
    \/ Restart

\* the Cache API exercised by a single caller
SpecCache == Init /\ [][NextCache]_vars

InitRetry ==
    /\ max_size = MaxCapacity
    /\ InitStore
    /\ keycall = NoKeyCall
    /\ InitHandler
    /\ enable_cache = [src |-> "default", text |-> "true"]
    /\ max_retries \in 0..MaxRetriesBound
    /\ InitRequest

NextRetry ==
    \/ \E req \in Requests : ClientComplete(req)
    \/ FirstPull
    \/ \E outcome \in Outcomes : Attempt(outcome)

\* the completion client called directly, as DefaultHandler.get_completion does
SpecRetry == InitRetry /\ [][NextRetry]_vars

\* the capacities the facade is run with: one where every store overflows, one
\* where two entries live side by side
FacadeCapacities == {1, 2}

InitFacade ==
    /\ max_size \in FacadeCapacities
    /\ InitStore
    /\ keycall = NoKeyCall
    /\ InitHandler
    /\ enable_cache \in EnableCacheSettings
    /\ max_retries = 1
    /\ InitRequest

\* every cacheable request, and one request of each kind the wrapper passes on
FacadeRequests == {r \in Requests : Cacheable(r) \/ r.messages = "m1"}

NextFacade ==
    \/ \E req \in FacadeRequests : FacadeComplete(req)
    \/ FirstPull
    \/ \E outcome \in {"raise", "response"} : Attempt(outcome)
    \/ CacheClear
    \/ Restart

\* requests made through the decorated BaseHandler.get_completion
SpecFacade == InitFacade /\ [][NextFacade]_vars

CancelRequests == {r \in Requests : Cacheable(r) /\ r.messages \in {"m1", "m2"}}

InitCancel ==
    /\ max_size = 1
    /\ InitStore
    /\ keycall = NoKeyCall
    /\ InitHandler
    /\ enable_cache = [src |-> "default", text |-> "true"]
    /\ max_retries = 1
    /\ InitRequest

NextCancel ==
    \/ \E req \in CancelRequests : FacadeComplete(req)
    \/ \E outcome \in {"raise", "response", "interrupt"} : AttemptToSet(outcome)
    \/ SetOpen
    \/ SetWrite
    \/ SetTouch
    \/ CleanupUnlink
    \/ CleanupDel
    \/ CleanupSave
    \/ SetSave
    \/ Interrupt
    \/ \E req \in CancelRequests : CacheGet(request_key(req))
    \/ Restart

\* cacheable requests that the user may interrupt
SpecCancel == InitCancel /\ [][NextCancel]_vars

InitFaults ==
    /\ max_size = 1
    /\ InitStore
    /\ keycall = NoKeyCall
    /\ InitHandler
    /\ enable_cache = [src |-> "default", text |-> "true"]
    /\ max_retries = 0
    /\ InitRequest

NextFaults ==
    \/ \E req \in CancelRequests : FacadeComplete(req)
    \/ \E req \in CancelRequests, class \in init_errors : FacadeCompleteInitFails(req, class)
    \/ \E req \in CancelRequests : FacadeCompleteReadFails(req)
    \/ \E outcome \in {"raise", "response", "unencodable"} : Attempt(outcome)
    \/ \E outcome \in {"raise", "response"} : AttemptSetFails(outcome)
    \/ \E req \in CancelRequests : CacheGet(request_key(req))
    \/ \E req \in CancelRequests : CacheGetFails(request_key(req))
    \/ \E req \in CancelRequests : DamagePayload(request_key(req))
    \/ CacheClear
    \/ Restart
    \/ RestartIndexUnreadable

\* cacheable requests and calls of the Cache API on a file system that fails
SpecFaults == InitFaults /\ [][NextFaults]_vars

\* messages=[]
EmptyMessages == "[]"

\* the calls made on the client: with and without stream, with a message and
\* with an empty message list
ClientRequests ==
    [messages : {"m1", EmptyMessages}, stream : BOOLEAN, functions : {"null"},
     tools : {"absent"}]

ClientRetries == {0, 1}

InitClient ==
    /\ max_size = 1
    /\ InitStore
    /\ keycall = NoKeyCall
    /\ InitHandler
    /\ enable_cache = [src |-> "default", text |-> "true"]
    /\ max_retries \in ClientRetries
    /\ InitRequest

NextClient ==
    \/ \E req \in ClientRequests : ClientComplete(req)
    \/ FirstPull
    \/ \E outcome \in {"raise", "response"} : Attempt(outcome)
    \/ \E chunk \in Chunks : NextChunk(chunk)
    \/ TransportRaise
    \/ StreamStop
    \/ PullAfterError

\* BaseLLMClient.complete and the consumer of its fragment generator
SpecClient == InitClient /\ [][NextClient]_vars

\* what main() hands to handle: a prompt, no stream, no functions
HandlerRequests ==
    [messages : {"m1", "m2"}, stream : {FALSE}, functions : {"null"}, tools : {"absent"}]

NextHandler ==
    \/ HandleEmptyPrompt
    \/ \E opts \in HandlerOptions, req \in HandlerRequests : HandleCall(opts, req)
    \/ \E outcome \in {"raise", "response"} : Attempt(outcome)
    \/ HandleReturn

\* prompts handled by DefaultHandler.handle, caching switched on by the default
\* configuration
SpecHandler == InitClient /\ [][NextHandler]_vars

NextPeers ==
    \/ \E key \in Keys : CacheSet(key, "1")
    \/ PeerStart
    \/ \E key \in Keys : PeerSet(key, "1")

\* two processes, each with its Cache over the same cache_dir, calling set in turn
SpecPeers == Init /\ [][NextPeers]_vars

NextEvict ==
    \/ \E key \in Keys, value \in Payloads : CacheSet(key, value)
    \/ \E key \in Keys, value \in Payloads, stuck \in Keys :
          CacheSetUnlinkFails(key, value, {stuck})
    \/ \E key \in Keys : CacheGet(key)

\* the Cache API over a directory in which deleting a file may fail
SpecEvict == Init /\ [][NextEvict]_vars

\* Cache._generate_key applied to the keyword arguments of two calls
GenerateKey ==
    /\ ~keycall.done
    /\ keycall' = [keycall EXCEPT !.done = TRUE,
                                  !.form1 = key_string(keycall.first),
                                  !.form2 = key_string(keycall.second),
                                  !.key1 = generate_key(keycall.first),
                                  !.key2 = generate_key(keycall.second)]
    /\ UNCHANGED <<cacheVars, configVars, requestVars, handlerVars, pullVars, peerVars>>

InitKeys ==
    /\ max_size = MaxCapacity
    /\ InitStore
    /\ enable_cache = [src |-> "default", text |-> "true"]
    /\ max_retries = 0
    /\ InitRequest
    /\ \E kw1 \in KeyCalls, kw2 \in KeyCalls :
          keycall = [NoKeyCall EXCEPT !.first = kw1, !.second = kw2]
    /\ InitHandler

NextKeys == GenerateKey

\* the key derivation applied to pairs of calls
SpecKeys == InitKeys /\ [][NextKeys]_vars

StreamRequests ==
    [messages : {"m1"}, stream : {TRUE}, functions : {"null"}, tools : {"absent"}]

NextPull ==
    \/ \E req \in StreamRequests : CreateGenerator(req)
    \/ Pull
    \/ \E outcome \in {"raise", "response"} : Attempt(outcome)
    \/ \E chunk \in Chunks : ReadChunk(chunk)
    \/ TransportRaise
    \/ StreamStop

\* one fragment generator and its consumer, yield by yield
SpecPull == InitClient /\ [][NextPull]_vars

\* DefaultHandler.handle, lines 76-78: the options are validated
ValidateOptions ==
    /\ validated = NoOptions
    /\ validated' = validate_options(options)
    /\ console' = console \o validate_warnings(options)
    /\ UNCHANGED <<options, completion_kwargs, handled, cacheVars, configVars, requestVars, keyVars, pullVars, peerVars>>

\* DefaultHandler.get_completion and BaseLLMClient.complete, called with the
\* validated options: the provider call receives completion_kwargs
CompleteValidated ==
    /\ validated # NoOptions
    /\ completion_kwargs = NoKwargs
    /\ completion_kwargs' =
          complete_kwargs(validated.temperature, validated.top_p, validated.max_tokens)
    /\ UNCHANGED <<options, validated, console, handled, cacheVars, configVars, requestVars, keyVars, pullVars, peerVars>>

InitOptions ==
    /\ max_size = MaxCapacity
    /\ InitStore
    /\ enable_cache = [src |-> "default", text |-> "true"]
    /\ max_retries = 0
    /\ InitRequest
    /\ keycall = NoKeyCall
    /\ options \in Options
    /\ validated = NoOptions
    /\ completion_kwargs = NoKwargs
    /\ console = <<>>
    /\ handled = <<>>

NextOptions ==
    \/ ValidateOptions
    \/ CompleteValidated

\* a handler called with any options, up to the provider call
SpecOptions == InitOptions /\ [][NextOptions]_vars

-----------------------------------------------------------------------------
(* Properties of the cache store. *)

IsSet(e) == e.op = "set"

hist_keys(h) == {h[i].key : i \in 1..Len(h)}

\* history is a run of sets of pairwise distinct keys
DistinctSets(h) ==
    /\ \A i \in 1..Len(h) : IsSet(h[i])
    /\ Cardinality(hist_keys(h)) = Len(h)

meta_time(meta, key) == (CHOOSE e \in Range(meta) : e.key = key).t

C6_LruEviction ==
    (histValid /\ DistinctSets(history) /\ Len(history) = max_size + 1) =>
        /\ stored_keys(files) = hist_keys(SubSeq(history, 2, Len(history)))
        /\ meta_keys(metadata) = stored_keys(files)
        /\ stats_entries(metadata) = max_size

C6_Witness ==
    /\ histValid /\ DistinctSets(history) /\ Len(history) = max_size + 1
    /\ max_size >= 2
    /\ history[1].key \notin stored_keys(files)

\* C7: a get that hits sets the key's last_access to the time of the call, and
\* with max_size 2 the calls set(a), set(b), get(a), set(c) at increasing times
\* leave exactly a and c with the payloads set, b being evicted.
C7_GetRefreshes ==
    /\ (lastOp.op = "get" /\ lastOp.ret # None) =>
            /\ lastOp.key \in meta_keys(metadata)
            /\ meta_time(metadata, lastOp.key) = now
    /\ (/\ max_size = 2 /\ histValid /\ Len(history) = 4
        /\ IsSet(history[1]) /\ IsSet(history[2]) /\ IsSet(history[4])
        /\ history[3].op = "get" /\ history[3].key = history[1].key
        /\ Cardinality({history[1].key, history[2].key, history[4].key}) = 3)
       => /\ stored_keys(files) = {history[1].key, history[4].key}
          /\ meta_keys(metadata) = stored_keys(files)
          /\ files[history[1].key] = history[1].value
          /\ files[history[4].key] = history[4].value

C7_Witness ==
    /\ max_size = 2 /\ histValid /\ Len(history) = 4
    /\ IsSet(history[1]) /\ IsSet(history[2]) /\ IsSet(history[4])
    /\ history[3].op = "get" /\ history[3].key = history[1].key
    /\ Cardinality({history[1].key, history[2].key, history[4].key}) = 3
    /\ history[2].key \notin stored_keys(files)

\* a get(k) that follows set(k, v) directly returns v
ReadYourWrite ==
    (lastOp.op = "set" /\ lastOp'.op = "get" /\ lastOp'.key = lastOp.key)
        => lastOp'.ret = lastOp.value

-----------------------------------------------------------------------------
(* Properties of the retry executor. *)

Failed(i) == attempt_error(outcomes[i], request.stream) # None

\* C4: when every attempt fails, by raising or by returning None, a boolean or,
\* without stream, a result with no or empty choices, the operation is called
\* exactly max_retries + 1 times and _retry_with_backoff then returns the error
\* response carrying the last error's message; it raises nothing.
C4_RetryExhaustion ==
    /\ pc # "raised"
    /\ (pc = "retry" /\ \A i \in 1..Len(outcomes) : Failed(i)) =>
            /\ invocations <= max_retries
            /\ retry_ret = NoResult
    /\ (pc # "retry" /\ outcomes # <<>> /\ \A i \in 1..Len(outcomes) : Failed(i)) =>
            /\ invocations = max_retries + 1
            /\ Len(outcomes) = invocations
            /\ retry_ret = create_error_response(
                                attempt_error(outcomes[Len(outcomes)], request.stream))
            /\ last_exception = attempt_error(outcomes[Len(outcomes)], request.stream)

\* three attempts failed in different ways and the error response came back
C4_Witness ==
    /\ max_retries >= 2
    /\ retry_ret.kind = "MockResponse"
    /\ invocations = max_retries + 1
    /\ ~request.stream
    /\ outcomes[1] = "raise" /\ outcomes[2] = "none" /\ outcomes[Len(outcomes)] = "empty_choices"

\* C5: when the operation fails k times and then succeeds, it is called k + 1
\* times, its result is returned, the i-th sleep (i = 0 .. k-1) lasts
\* retry_delay * 2^i and the sleeps add up to retry_delay * (2^k - 1).
C5_RetrySuccessAfterFailures ==
    LET n == Len(outcomes) IN
    (n >= 1 /\ ~Failed(n) /\ \A i \in 1..(n - 1) : Failed(i)) =>
        /\ pc # "retry"
        /\ n - 1 <= max_retries
        /\ invocations = n
        /\ retry_ret = response_of(outcomes[n])
        /\ Len(sleeps) = n - 1
        /\ \A i \in 0..(n - 2) : sleeps[i + 1] = retry_delay * Pow2(i)
        /\ SumSeq(sleeps) = retry_delay * (Pow2(n - 1) - 1)

\* max_retries = 2, two failures, then a response: 3 s slept in all
C5_Witness ==
    /\ max_retries = 2
    /\ Len(outcomes) = 3
    /\ Failed(1) /\ Failed(2)
    /\ retry_ret = response_of("response")
    /\ SumSeq(sleeps) = 3

-----------------------------------------------------------------------------
(* Properties of the caching decorator. *)

\* caching is switched on in the configuration, whatever the source
ConfiguredOn == enable_cache.text = "true"

\* C2: when the client returns the error response for a cacheable request,
\* the wrapper makes no cache.set. The code serializes the error response like
\* any other result and stores it.
C2_FailureNotCached ==
    (/\ via = "facade" /\ pc = "idle" /\ ConfiguredOn /\ Cacheable(request)
     /\ retry_ret.kind = "MockResponse")
    => /\ lastOp.op # "set"
       /\ files[get_cache_file(request_key(request))] = storedAtCall

\* C3: with caching switched on in the configuration (default, file or
\* environment), a request without stream and tools whose key is stored is
\* answered from the stored payload and the provider is not called. The code
\* compares the converted (boolean) value of the file and of the environment
\* with the string "true" and passes the request on.
C3_HitServedFromCache ==
    (/\ via = "facade" /\ ConfiguredOn /\ Cacheable(request)
     /\ storedAtCall # NoFile)
    => /\ pc = "idle"
       /\ invocations = 0
       /\ result = json_loads(storedAtCall)

\* the requests C10 speaks of
PassedOn(req) ==
    \/ req.stream
    \/ req.functions # "null" \/ req.tools # "absent"
    \/ enable_cache.text = "false"

HitAfterMiss ==
    /\ via = "facade" /\ pc = "idle" /\ Cacheable(request)
    /\ lastOp.op = "set" /\ lastOp.key = request_key(request)
    /\ retry_ret.kind = "ModelResponse" /\ result = retry_ret
    /\ via' = "facade" /\ pc' = "idle" /\ request' = request
    /\ lastOp'.op = "get" /\ lastOp'.ret # None

\* C11: a miss that returned and stored a Success result, followed by a hit on
\* the same key, returns on the hit a result equal to the one returned on the
\* miss. The code stores json.dumps(result, default=str), the text of
\* str(result), and the hit returns json.loads of it: a Python str.
C11_RoundTrip == [][HitAfterMiss => result' = result]_vars

-----------------------------------------------------------------------------
(* Properties of the key derivation. *)

\* the two calls pass the same keywords with the same values
SameArguments == Range(keycall.first) = Range(keycall.second)

\* C12: two calls with the same messages and parameter values, their keyword
\* arguments in different orders, get the same key; two calls that differ in the
\* order of the messages or in a parameter value get different canonical forms.
C12_KeyStability ==
    keycall.done =>
        /\ SameArguments => keycall.key1 = keycall.key2
        /\ ~SameArguments => keycall.form1 # keycall.form2

\* the same two-message request written with its keywords in two orders
C12_Witness ==
    /\ keycall.done
    /\ SameArguments /\ keycall.first # keycall.second
    /\ keycall.first[1].name = "stream" /\ keycall.second[1].name = "messages"
    /\ keycall.first[2].value = json_list(<<"user", "system">>)
    /\ keycall.key1 = keycall.key2

-----------------------------------------------------------------------------
(* Properties of the fragment generator. *)

\* the texts an error fragment can carry
ErrorFragments ==
    {streaming_error(t) : t \in {exception_text("Exception"),
                                 exception_text("AttributeError"),
                                 str(create_error_response(""))}}

MarkedError(f) == f \in ErrorFragments

TransportRaised == chunks # <<>> /\ chunks[Len(chunks)].kind = "raise"

HandshakeFailed == retry_ret.kind = "MockResponse"

\* the fragments the loop yields for a sequence of chunks
RECURSIVE yielded_by(_)
yielded_by(cs) ==
    IF cs = <<>> THEN <<>> ELSE process_chunk(Head(cs)).yielded \o yielded_by(Tail(cs))

\* C13: when the provider's iterator raises after j fragments were yielded, or
\* the handshake fails after all retries, the consumer gets those j fragments in
\* order, then exactly one error fragment, then the end of the sequence; nothing
\* is raised to the consumer and nothing follows the error fragment.
C13_StreamErrorFragment ==
    request.stream =>
        /\ pc # "raised"
        /\ \A i \in 1..(Len(fragments) - 1) : ~MarkedError(fragments[i])
        /\ (pc \in {"failed", "exhausted"} /\ (TransportRaised \/ HandshakeFailed)) =>
              LET n == Len(fragments) IN
              /\ n >= 1
              /\ MarkedError(fragments[n])
              /\ SubSeq(fragments, 1, n - 1)
                    = yielded_by(SelectSeq(chunks, LAMBDA c : c.kind = "chunk"))

\* the iterator raised after two fragments and the generator has ended
C13_Witness ==
    /\ request.stream /\ pc = "exhausted"
    /\ TransportRaised
    /\ Len(fragments) = 3
    /\ fragments[1] = "a" /\ fragments[2] = calling_function("ls")

\* the chunks C14 calls malformed
Malformed(chunk) ==
    \/ chunk.choices \in {"absent", "empty"}
    \/ chunk.delta = "absent"
    \/ \E i \in 1..Len(chunk.tool_calls) : chunk.tool_calls[i] = NoFunction

\* the fragments of a sequence of chunks whose malformed chunks are skipped
RECURSIVE skipping_malformed(_)
skipping_malformed(cs) ==
    IF cs = <<>> THEN <<>>
    ELSE (IF Malformed(Head(cs)) THEN <<>> ELSE process_chunk(Head(cs)).yielded)
         \o skipping_malformed(Tail(cs))

\* C14: a chunk with no choices attribute, with empty choices, with a choice
\* that has no delta, or with a tool call that has no function, yields no
\* fragment, and the chunks after it are processed and yielded as usual. The
\* code skips the first two; the other two raise AttributeError inside the loop,
\* which yields the error fragment and ends the generator.
C14_MalformedChunksSkipped ==
    (request.stream /\ pc \in {"streaming", "failed", "exhausted"}
        /\ ~TransportRaised /\ ~HandshakeFailed)
    => /\ pc # "failed"
       /\ fragments = skipping_malformed(chunks)

\* the markers of the tool calls that name a function, in their order
RECURSIVE Markers(_)
Markers(calls) ==
    IF calls = <<>> THEN <<>>
    ELSE (IF Head(calls) \in {"", NoFunction} THEN <<>>
          ELSE <<calling_function(Head(calls))>>) \o Markers(Tail(calls))

\* what C26 has a chunk yield: its text, or a marker for each tool call that
\* names a function
TextOrMarkers(chunk) ==
    IF chunk.content # "" THEN <<chunk.content>> ELSE Markers(chunk.tool_calls)

RECURSIVE InArrivalOrder(_)
InArrivalOrder(cs) ==
    IF cs = <<>> THEN <<>> ELSE TextOrMarkers(Head(cs)) \o InArrivalOrder(Tail(cs))

\* C26: while the handshake and the iterator raise nothing, the fragments are
\* those of the chunks in the order of their arrival: the text of each text
\* delta, one marker with the function name for each tool call that names a
\* function, and nothing else. The code yields an error fragment and ends the
\* stream on a chunk whose choice has no delta or whose tool call has no
\* function (the AttributeError of C14), so that something else is yielded and
\* the chunks after it yield nothing.
C26_FragmentsInArrivalOrder ==
    (request.stream /\ pc \in {"streaming", "failed", "exhausted"}
        /\ ~TransportRaised /\ ~HandshakeFailed)
    => fragments = InArrivalOrder(chunks)

\* C15: complete() called with an empty message list is rejected before any
\* provider call: no invocation, no retry sleep, no cache write. The code has no
\* check of messages and enters the provider call.
C15_EmptyMessagesRejected ==
    request.messages = EmptyMessages =>
        /\ invocations = 0
        /\ sleeps = <<>>
        /\ lastOp.op # "set"

-----------------------------------------------------------------------------
(* Properties of a cancelled request. *)

\* C16: when a cacheable request is cancelled by the user's interrupt, in the
\* provider call, in a backoff sleep or between the statements of the cache
\* write, the store is consistent: a payload file has its metadata row, a
\* metadata row has its payload file, and get returns no partly written payload.
\* The code has no handler for the interrupt in Cache.set: what the statements
\* before it did stays as it is.
C16_CancelLeavesStoreConsistent ==
    /\ pc = "cancelled" =>
          \A k \in AllKeys : (k \in meta_keys(metadata)) <=> file_exists(files, k)
    /\ lastOp.op = "get" => lastOp.ret # Truncated

\* a step in which Ctrl-C reached the retry loop: in the provider call, or,
\* the loop having nothing else to be interrupted in, in time.sleep
InterruptedInCall ==
    /\ Len(outcomes') = Len(outcomes) + 1
    /\ outcomes'[Len(outcomes')] = "interrupt"
InterruptedInSleep == pc = "retry" /\ pc' = "cancelled" /\ outcomes' = outcomes

\* C24: Ctrl-C during an attempt or during a backoff sleep ends the retry loop
\* there: the request is cancelled, the interrupt is not recorded as the
\* loop's last exception and leads to no sleep and no further iteration, no
\* error response is made of it, and the operation is not called again.
C24_CancelAbortsRetry ==
    /\ [][InterruptedInCall \/ InterruptedInSleep =>
            /\ pc' = "cancelled"
            /\ UNCHANGED <<attempt, sleeps, last_exception, retry_ret, result>>
            /\ retry_ret = NoResult]_vars
    /\ [][pc = "cancelled" => invocations' <= invocations]_vars

\* a request was cancelled in its second attempt, after a failed first one and
\* the sleep that followed it
C24_Witness ==
    /\ pc = "cancelled"
    /\ outcomes = <<"raise", "interrupt">>
    /\ invocations = 2
    /\ Len(sleeps) = 1
    /\ retry_ret = NoResult

-----------------------------------------------------------------------------
(* Properties under file-system failures. *)

\* C17: a failure of the cache's file operations during a cacheable request (a
\* payload that cannot be read or written, a cache directory that cannot be
\* used, a metadata file that cannot be read or parsed) never makes the
\* decorated call raise: the caller gets the client's result. The code calls
\* get_cache() outside any try, and Cache.__init__ lets the OSError of mkdir and
\* the UnicodeDecodeError of json.load through.
C17_CacheFaultsNeverRaise ==
    (via = "facade" /\ Cacheable(request)) =>
        /\ pc # "raised"
        /\ (pc = "idle" /\ invocations > 0) => result = retry_ret

\* the step is a return of Cache.get
GetReturns == lastOp' # lastOp /\ lastOp'.op = "get"

UnencodableReturns ==
    /\ pc = "retry" /\ pc' # "retry"
    /\ via = "facade" /\ ~wrapper_bypasses(enable_cache, request)
    /\ json_dumps_error(retry_ret') # None

\* C20: when the result of a cacheable request cannot be serialized, the
\* wrapper returns the client's result as it is and the store is unchanged.
C20_UnserializableNotStored ==
    [][UnencodableReturns =>
        /\ pc' = "idle"
        /\ result' = retry_ret'
        /\ files' = files
        /\ metadata' = metadata
        /\ metadata_file' = metadata_file]_vars

\* such a result has been returned while the store held an entry
C20_Witness ==
    /\ via = "facade" /\ pc = "idle"
    /\ ~wrapper_bypasses(enable_cache, request)
    /\ json_dumps_error(retry_ret) # None
    /\ result = retry_ret
    /\ Len(metadata) >= 1
    /\ ~file_exists(files, request_key(request))

\* C25: when an eviction pass cannot delete the payload file of an entry it
\* selected, it goes on: every other entry it selected has lost its payload
\* file and its row, in self.metadata and in the metadata file.
C25_EvictionContinuesAfterFailure ==
    lastOp.op = "set" /\ "failed" \in DOMAIN lastOp =>
        \A k \in lastOp.selected \ lastOp.failed :
            /\ ~file_exists(files, k)
            /\ k \notin meta_keys(metadata)
            /\ k \notin meta_keys(metadata_file.data)

\* a pass had selected two entries: the file of the older one could not be
\* deleted and stays with its row, the other one is gone
C25_Witness ==
    /\ lastOp.op = "set" /\ "failed" \in DOMAIN lastOp
    /\ Cardinality(lastOp.selected) = 2
    /\ Cardinality(lastOp.failed) = 1
    /\ \E k \in lastOp.failed : file_exists(files, k) /\ k \in meta_keys(metadata)
    /\ \E k \in lastOp.selected \ lastOp.failed :
          ~file_exists(files, k) /\ k \notin meta_keys(metadata)
    /\ \E i \in 1..Len(metadata) :
          metadata[i].key \in lastOp.failed
          /\ \A j \in 1..Len(metadata) : metadata[i].t <= metadata[j].t

-----------------------------------------------------------------------------
(* Properties of DefaultHandler.handle. *)

\* C27: a request without stream and tools made through DefaultHandler.handle
\* goes through the caching decorator: with caching switched on, the same
\* request made again after the provider answered it is answered from the
\* cache, without a provider call. The code calls
\* client.complete from DefaultHandler.get_completion, which is not decorated:
\* nothing is looked up or stored and every request calls the provider.
C27_HandlerUsesCache ==
    ~cache_disabled(enable_cache) =>
        \A j \in 1..Len(handled) : \A i \in 1..(j - 1) :
            (handled[i].request = handled[j].request
               /\ handled[i].response.kind = "ModelResponse")
            => handled[j].invocations = 0

\* C28: when the client returns its error response to a handle without stream,
\* the handler prints it as an error and returns: it is not printed as the
\* answer and not given to the shell interaction. The code tests the content
\* for the prefix with the cross mark U+274C, the client writes the prefix with
\* other characters, and the error text is printed by print_response.
C28_HandlerReportsError ==
    \A j \in 1..Len(handled) :
        handled[j].response.kind = "MockResponse" =>
            /\ handled[j].printed = <<print_red(handled[j].response.content)>>
            /\ \A i \in 1..Len(handled[j].printed) :
                  /\ handled[j].printed[i] # print_response(handled[j].response.content)
                  /\ handled[j].printed[i] # shell_interaction(handled[j].response.content)

-----------------------------------------------------------------------------
(* Properties of the eviction a set makes. *)

\* the keys a step takes out of the store: out of the payload files or out of
\* self.metadata
EvictedByStep ==
    (stored_keys(files) \ stored_keys(files')) \cup (meta_keys(metadata) \ meta_keys(metadata'))

-----------------------------------------------------------------------------
(* Properties of two instances over one cache directory. *)

\* the self.metadata of the instance that made the last set
SetterMetadata == IF "by" \in DOMAIN lastOp THEN peer_metadata ELSE metadata

-----------------------------------------------------------------------------
(* Properties of option validation. *)

InRange(lo, x, hi) == float_le(lo, x) /\ float_le(x, hi)

\* the nearest bound of [lo, hi] to x; a value that is not a number has none
NearestBound(lo, x, hi) ==
    IF float_lt(x, lo) THEN lo ELSE IF float_lt(hi, x) THEN hi ELSE x

-----------------------------------------------------------------------------
(* Properties of the fragment generator and its consumer. *)

\* the generator has run: the provider was called, a chunk was read or a
\* fragment was handed over
GeneratorRan ==
    \/ invocations' > invocations
    \/ Len(chunks') > Len(chunks)
    \/ Len(fragments') > Len(fragments)

\* C22: complete(stream=True) makes the generator and calls nothing; the
\* handshake, every chunk read and every fragment happen inside a next() of the
\* consumer that is not answered yet, so that no fragment exists that was not
\* asked for.
C22_PullBased ==
    /\ [](pc = "generator" => invocations = 0 /\ chunks = <<>> /\ fragments = <<>>)
    /\ [](Len(fragments) <= pulls)
    /\ [][GeneratorRan => pulls' > Len(fragments)]_vars

\* a chunk with two tool calls was read: its second marker was handed over on
\* a next() of its own
C22_Witness ==
    /\ pulls = 2
    /\ Len(chunks) = 1
    /\ Len(fragments) = 2
    /\ invocations >= 1

\* the handshake of a streaming request has returned a stream
StreamOpened == request.stream /\ retry_ret # NoResult /\ has_iter(retry_ret)

\* C23: for a streaming request the provider operation is called at most
\* max_retries + 1 times, all of them in the handshake: once the handshake has
\* returned a stream the operation is not called again for that request,
\* whatever happens while the stream is read.
C23_HandshakeOnlyRetry ==
    /\ [](request.stream => invocations <= max_retries + 1)
    /\ [][StreamOpened => invocations' <= invocations]_vars

\* the handshake failed once and then returned a stream, which broke after a
\* fragment: the operation was called twice and the error fragment ends the stream
C23_Witness ==
    /\ StreamOpened
    /\ max_retries = 1
    /\ invocations = 2
    /\ TransportRaised
    /\ Len(fragments) = 2
    /\ pc = "exhausted"

====
